---- MODULE Spec2Model ----
(***************************************************************************)
(* A model of the grid_search parameter sweep.  The repository holds two   *)
(* engines: the binary (main.rs: HashMap configuration, closed ranges,     *)
(* chunked par_iter, timeout, best-state file) and the library crate       *)
(* (lib.rs, run.rs, float_range.rs, args.rs, config.rs: Vec configuration, *)
(* half-open FloatRange, one par_iter over a private pool, no timeout, no  *)
(* best tracking).  Spec is a run of either engine, EnumSpec applies both  *)
(* enumerators to a wide set of ranges, TwoRunSpec runs the binary twice   *)
(* on one configuration, DirSpec prepares the logs directory for sweeps of *)
(* many tasks, PathSpec and ExtractSpec apply the path functions and the   *)
(* metric extractors to wide sets of inputs.                               *)
(*                                                                         *)
(* Numbers.  Parameter values (f64) are modelled by integers counting      *)
(* halves (1.5 is 3): every value the model forms is a small multiple of   *)
(* 0.5, which f64 adds exactly, so repeated addition has no drift here.    *)
(* Metrics (f64) are modelled by integers counting hundredths (1234.5 is   *)
(* 123450).  f64::NEG_INFINITY is a sentinel below every metric.           *)
(*                                                                         *)
(* Text.  A text is a sequence of one-character strings; "P" stands for    *)
(* the literal label `Total profit`, "\n" ends a line, " " is whitespace.  *)
(***************************************************************************)
EXTENDS Integers, Sequences, FiniteSets, TLC

VARIABLES
    parameters,       \* the configured ranges, in the order the config file declares them
    threads,          \* the -j / --threads option as given on the command line
    test,             \* the -e / --test flag: save all results to CSV
    template,         \* the target file (config.python_script): readable or not, its lines
    phase,            \* main.rs: where main() is
    param_names,      \* main.rs: the HashMap's iteration order of this run
    constants_list,   \* main.rs: the enumerated combinations
    state_file,       \* main.rs: the durable best-state file
    best_profit,      \* main.rs: in-memory best metric
    best_constants,   \* main.rs: in-memory best combination
    chunk_index,      \* main.rs: the chunk being processed
    task,             \* main.rs: per task index, the state of its run_and_get_profit
    results,          \* main.rs: the chunk's collected (profit, constants) pairs
    agg,              \* main.rs: position of the aggregation loop in results
    state,            \* main.rs: the State load_state returned (held in the Arc<Mutex<_>>)
    lib_phase,        \* run.rs: where the library engine is
    constant_strings, \* lib.rs: the enumerated combinations
    lib_task,         \* run.rs: per task index, the state of its closure
    param_values,     \* main.rs: per name of param_names, the values of its range
    run_no,           \* which run of the binary on this configuration this is (1 or 2)
    first_run,        \* what the previous run of the binary left and what its children did
    csv_file,         \* main.rs: the rows of grid_search_results.csv (CSV_FILE)
    fs,               \* the entries under the logs directory (config.logs_dir)
    arg,              \* the argument a pure function of the program is applied to
    ret,              \* what that function returned
    ran               \* per position of the combination list, the task indices its per-task work was run under

vars == <<parameters, threads, test, template, phase, param_names, constants_list, state_file,
          best_profit, best_constants, chunk_index, task, results, agg, state,
          lib_phase, constant_strings, lib_task,
          param_values,
          run_no,
          first_run,
          csv_file,
          fs,
          arg,
          ret,
          ran>>

mainVars == <<phase, param_names, param_values, constants_list, state_file, best_profit,
              best_constants, chunk_index, task, results, agg, state,
              run_no,
              first_run,
              csv_file>>

libVars == <<lib_phase, constant_strings, lib_task>>

\* What the run is given: it never changes.
inputVars == <<parameters, threads, test, template>>

----------------------------------------------------------------------------
\* Bounds of the model.

\* rayon::current_num_threads() of the machine the sweep runs on.
\* Largest number of tasks of the sweeps whose directories DirSpec prepares.
MaxTotal == 250

\* Largest task index PathSpec computes the paths of.
MaxIndex == 300

\* Largest number of lines of the outputs ExtractSpec extracts from.
MaxLines == 3

NumCpus == 2
\* The largest explicit --threads value tried.
MaxThreads == 2
\* Iterations after which an enumeration loop that has not ended is reported as
\* diverging (the code's loop has no such cap: it runs until memory is exhausted).
MaxIter == 6
\* Largest range bound (in halves) drawn by EnumSpec.
MaxEnd == 3
\* main.rs 411 sets chunk_size to 100; the model keeps the chunked loop and its
\* index arithmetic and scales the size down so that sweeps of a few tasks span
\* several chunks.
chunk_size == 2

\* The capacity of a shard bucket: the literal 100 of the path functions.
ShardSize == 100

\* f64::NEG_INFINITY, below every metric the model forms.
NEG_INFINITY == -1000000

\* u8::MAX, the default of Options.threads (args.rs 11) standing for "not given".
u8_MAX == 255

----------------------------------------------------------------------------
\* Sequence helpers.

Range(s) == {s[i] : i \in DOMAIN s}

RECURSIVE SeqProd(_)
SeqProd(s) == IF s = <<>> THEN 1 ELSE Head(s) * SeqProd(Tail(s))

RECURSIVE Flatten(_)
Flatten(ss) == IF ss = <<>> THEN <<>> ELSE Head(ss) \o Flatten(Tail(ss))

\* The permutations of 1..n, as sequences.
Perms(n) == {p \in [1..n -> 1..n] : \A i, j \in 1..n : p[i] = p[j] => i = j}

----------------------------------------------------------------------------
\* float_range.rs: FloatRange, an iterator of f64.

FloatRange_new(start, end, step) == [current |-> start, end |-> end, step |-> step]

\* FloatRange::next: None once current has reached end in the direction of step.
FloatRange_next(r) ==
    IF (r.step > 0 /\ r.current >= r.end) \/ (r.step < 0 /\ r.current <= r.end)
    THEN [some |-> FALSE, val |-> 0, range |-> r]
    ELSE [some |-> TRUE, val |-> r.current,
          range |-> [r EXCEPT !.current = r.current + r.step]]

\* `for val in range`: the values next() yields until None.  fuel caps the
\* iterations the model follows; diverged says the cap was hit.
RECURSIVE ForIn(_, _)
ForIn(r, fuel) ==
    LET n == FloatRange_next(r) IN
    IF ~n.some THEN [vals |-> <<>>, diverged |-> FALSE]
    ELSE IF fuel = 0 THEN [vals |-> <<>>, diverged |-> TRUE]
    ELSE LET rest == ForIn(n.range, fuel - 1)
         IN [vals |-> <<n.val>> \o rest.vals, diverged |-> rest.diverged]

\* lib.rs generate_loops: one FloatRange per variable, in declaration order.
generate_loops(vs) ==
    [i \in DOMAIN vs |-> FloatRange_new(vs[i].start, vs[i].end, vs[i].step)]

\* lib.rs generate_combinations / helper: depth-first over the ranges, range
\* `index` iterated afresh for every prefix; a combination is the joined lines
\* "name = value", one per variable, modelled as the sequence of (name, value).
RECURSIVE helper(_, _, _, _)
helper(rs, index, current, vs) ==
    IF index = Len(rs) + 1
    THEN <<[i \in DOMAIN current |-> [name |-> vs[i].name, value |-> current[i]]]>>
    ELSE LET it == ForIn(rs[index], MaxIter)
         IN Flatten([k \in DOMAIN it.vals |->
                        helper(rs, index + 1, Append(current, it.vals[k]), vs)])

generate_combinations(rs, vs) == helper(rs, 1, <<>>, vs)

\* Whether some loop of generate_combinations never ends.
LibDiverges(vs) ==
    \E i \in DOMAIN vs : ForIn(generate_loops(vs)[i], MaxIter).diverged

\* lib.rs get_constant_strings.
get_constant_strings(vs) == generate_combinations(generate_loops(vs), vs)

----------------------------------------------------------------------------
\* main.rs: Config::generate_values and the combination loop of main().

\* Config::generate_values: `while current <= param.end`, whatever the sign of step.
RECURSIVE GenLoop(_, _, _, _)
GenLoop(current, end, step, fuel) ==
    IF ~(current <= end) THEN [vals |-> <<>>, diverged |-> FALSE]
    ELSE IF fuel = 0 THEN [vals |-> <<>>, diverged |-> TRUE]
    ELSE LET rest == GenLoop(current + step, end, step, fuel - 1)
         IN [vals |-> <<current>> \o rest.vals, diverged |-> rest.diverged]

generate_values(param) == GenLoop(param.start, param.end, param.step, MaxIter)

\* The inner `loop` of main.rs 371-382 on 0-based indices held in a 1-based
\* sequence: j counts down, the first index that does not wrap ends it.
RECURSIVE UpdateIndices(_, _, _)
UpdateIndices(indices, sizes, j) ==
    IF j = 0 THEN [indices |-> indices, j |-> 0]
    ELSE LET j1 == j - 1
             inc == [indices EXCEPT ![j1 + 1] = @ + 1]
         IN IF inc[j1 + 1] < sizes[j1 + 1]
            THEN [indices |-> inc, j |-> j1]
            ELSE UpdateIndices([inc EXCEPT ![j1 + 1] = 0], sizes, j1)

\* The outer `loop` of main.rs 361-386.  names is param_names (the HashMap's
\* key order), values[i] the values of names[i].  Indexing an empty Vec panics:
\* param_values[name][0] when a range is empty, indices[0] when there is no
\* parameter at all.
RECURSIVE CombinationLoop(_, _, _, _)
CombinationLoop(names, values, indices, acc) ==
    IF \E i \in DOMAIN names : Len(values[i]) = 0
    THEN [list |-> acc, panicked |-> TRUE]
    ELSE LET constant_str == [i \in DOMAIN names |->
                                 [name |-> names[i], value |-> values[i][indices[i] + 1]]]
             acc1 == Append(acc, constant_str)
             sizes == [i \in DOMAIN names |-> Len(values[i])]
             upd == UpdateIndices(indices, sizes, Len(indices))
         IN IF Len(names) = 0 THEN [list |-> acc1, panicked |-> TRUE]
            ELSE IF upd.j = 0 /\ upd.indices[1] = 0
            THEN [list |-> acc1, panicked |-> FALSE]
            ELSE CombinationLoop(names, values, upd.indices, acc1)

\* main.rs 343-386 for one iteration order `order` of the HashMap (a
\* permutation of the declared parameters).
MainEnumerate(ps, order) ==
    LET names == [i \in DOMAIN ps |-> ps[order[i]].name]
        gen == [i \in DOMAIN ps |-> generate_values(ps[order[i]])]
        values == [i \in DOMAIN ps |-> gen[i].vals]
        out == CombinationLoop(names, values, [i \in DOMAIN ps |-> 0], <<>>)
    IN [names |-> names,
        values |-> values,
        diverged |-> \E i \in DOMAIN ps : gen[i].diverged,
        panicked |-> out.panicked,
        list |-> out.list]

----------------------------------------------------------------------------
\* Text: str::lines, split_whitespace, replace(",", ""), parse::<f64>.

Digits == {"0", "1", "2", "3", "4", "5", "6", "7", "8", "9"}

DigitVal(c) ==
    CASE c = "0" -> 0 [] c = "1" -> 1 [] c = "2" -> 2 [] c = "3" -> 3 [] c = "4" -> 4
      [] c = "5" -> 5 [] c = "6" -> 6 [] c = "7" -> 7 [] c = "8" -> 8 [] c = "9" -> 9

Whitespace == {" ", "\n"}

\* str::lines: the pieces between line feeds; a final line feed ends the last
\* line and starts no empty one.
RECURSIVE SplitOn(_, _, _)
SplitOn(s, seps, cur) ==
    IF s = <<>> THEN <<cur>>
    ELSE IF Head(s) \in seps THEN <<cur>> \o SplitOn(Tail(s), seps, <<>>)
    ELSE SplitOn(Tail(s), seps, Append(cur, Head(s)))

lines(s) ==
    LET pieces == SplitOn(s, {"\n"}, <<>>)
    IN IF pieces[Len(pieces)] = <<>> THEN SubSeq(pieces, 1, Len(pieces) - 1) ELSE pieces

\* str::split_whitespace: the non-empty pieces between whitespace.
split_whitespace(s) == SelectSeq(SplitOn(s, Whitespace, <<>>), LAMBDA w : w # <<>>)

\* str::replace(",", "").
remove_commas(s) == SelectSeq(s, LAMBDA c : c # ",")

RECURSIVE DecimalValue(_)
DecimalValue(ds) ==
    IF ds = <<>> THEN 0 ELSE DecimalValue(SubSeq(ds, 1, Len(ds) - 1)) * 10 + DigitVal(ds[Len(ds)])

\* str::parse::<f64> on the model's alphabet: an optional sign, digits with at
\* most one point, at least one digit.  The value counts hundredths (the
\* model's texts carry at most two fractional digits).
parse_f64(s) ==
    LET signed == s # <<>> /\ s[1] \in {"-", "+"}
        body == IF signed THEN Tail(s) ELSE s
        points == {i \in DOMAIN body : body[i] = "."}
        point == IF points = {} THEN Len(body) + 1 ELSE CHOOSE i \in points : TRUE
        int == SubSeq(body, 1, point - 1)
        frac == SubSeq(body, point + 1, Len(body))
        frac2 == SubSeq(frac \o <<"0", "0">>, 1, 2)
        ok == /\ Cardinality(points) <= 1
              /\ \A i \in DOMAIN body : body[i] \in Digits \cup {"."}
              /\ Len(int) + Len(frac) >= 1
        mag == DecimalValue(int) * 100 + DecimalValue(frac2)
    IN IF ok THEN [some |-> TRUE, val |-> IF signed /\ s[1] = "-" THEN 0 - mag ELSE mag]
       ELSE [some |-> FALSE, val |-> 0]

None == [some |-> FALSE, val |-> 0]
Some(v) == [some |-> TRUE, val |-> v]

\* main.rs parse_profit: the first line containing the label whose last
\* whitespace-separated word, commas removed, parses as f64.
RECURSIVE ParseProfitLines(_)
ParseProfitLines(ls) ==
    IF ls = <<>> THEN None
    ELSE LET line == Head(ls)
             parts == split_whitespace(line)
             parsed == parse_f64(remove_commas(parts[Len(parts)]))
         IN IF "P" \in Range(line) /\ parts # <<>> /\ parsed.some
            THEN parsed
            ELSE ParseProfitLines(Tail(ls))

parse_profit(output) == ParseProfitLines(lines(output))

\* lib.rs get_profit: the leftmost match of `Total profit:\s*([\d,]+)` in the
\* whole output; its capture, commas removed, parsed as f64.  A match whose
\* capture does not parse gives None: no later match is tried.
RECURSIVE SkipWhile(_, _, _)
SkipWhile(s, i, set) ==
    IF i <= Len(s) /\ s[i] \in set THEN SkipWhile(s, i + 1, set) ELSE i

RegexCapture(s) ==
    LET starts == {i \in DOMAIN s :
                      /\ s[i] = "P"
                      /\ i + 1 <= Len(s) /\ s[i + 1] = ":"
                      /\ LET d == SkipWhile(s, i + 2, Whitespace)
                         IN d <= Len(s) /\ s[d] \in Digits \cup {","}}
    IN IF starts = {} THEN [some |-> FALSE, text |-> <<>>]
       ELSE LET i == CHOOSE i \in starts : \A k \in starts : i <= k
                d == SkipWhile(s, i + 2, Whitespace)
                e == SkipWhile(s, d, Digits \cup {","})
            IN [some |-> TRUE, text |-> SubSeq(s, d, e - 1)]

get_profit(output) ==
    LET caps == RegexCapture(output)
    IN IF caps.some THEN parse_f64(remove_commas(caps.text)) ELSE None

----------------------------------------------------------------------------
\* main.rs: the binary's sweep.

\* The worker pool of main.rs 332-340: rayon's global pool, built with
\* num_threads(threads) when -j is given.  rayon takes num_threads(0), like no
\* call at all, as "choose automatically" (the CPU count).
\* (Mutation of PoolSize: one item more than the pool has threads is started.)
PoolSize_one_more(t) == (IF t.some /\ t.n > 0 THEN t.n ELSE NumCpus) + 1

PoolSize(t) == IF t.some /\ t.n > 0 THEN t.n ELSE NumCpus

\* State, main.rs 39-43, and the default of load_state.
DefaultState == [max_profit |-> NEG_INFINITY, constants |-> <<>>]

NoFile == [exists |-> FALSE, valid |-> FALSE, content |-> DefaultState]
FileOf(st) == [exists |-> TRUE, valid |-> TRUE, content |-> st]

\* (Mutation of save_state: a fresh default State is serialized, not the argument.)
save_state_default(st) == FileOf(DefaultState)

\* save_state, main.rs 106-109: the file is rewritten wholesale.
save_state(st) == FileOf(st)

\* load_state, main.rs 86-104: the State returned and the file it leaves.  A
\* missing file is created with the default; a corrupt one is left as it is.
load_state(file) ==
    IF ~file.exists THEN [state |-> DefaultState, file |-> save_state(DefaultState)]
    ELSE IF file.valid THEN [state |-> file.content, file |-> file]
    ELSE [state |-> DefaultState, file |-> file]

Ok(v) == [ok |-> TRUE, val |-> v]
Err == [ok |-> FALSE, val |-> 0]
unwrap_or(r, d) == IF r.ok THEN r.val ELSE d

\* What child.wait_with_output() returns as stdout, main.rs 248-253 and 273-274:
\* the Command sets only stderr (to null) before spawn(), so the child's stdout
\* is inherited from the parent, not piped, and the Output's stdout is empty
\* whatever the child printed.
CapturedStdout(child_out) == <<>>

\* run_and_get_profit, main.rs 273-293, once the child has exited in time.
run_and_get_profit_exited(status_success, child_out) ==
    LET stdout == CapturedStdout(child_out)
    IN IF ~status_success THEN Ok(0)
       ELSE LET p == parse_profit(stdout) IN IF p.some THEN Ok(p.val) ELSE Err

\* run_and_get_profit, main.rs 257-270, when wait_timeout gives None: the child
\* is killed and reaped, and the result is Ok(0.0).
run_and_get_profit_timed_out == Ok(0)

N == Len(constants_list)

\* constants_list.chunks(chunk_size).enumerate(): chunk k as a sequence.
Min(a, b) == IF a < b THEN a ELSE b
Chunk(k) == SubSeq(constants_list, k * chunk_size + 1, Min((k + 1) * chunk_size, N))
NumChunks == (N + chunk_size - 1) \div chunk_size

\* (Mutation of global_index: the offset in the chunk alone.)
global_index_in_chunk(k, i) == i

\* slice::chunks, main.rs 415: the position in constants_list (from 1) of
\* item i of chunk k.
ChunkPosition(k, i) == k * chunk_size + i + 1

\* main.rs 420: the index a task of the chunk runs under.
global_index(k, i) == k * chunk_size + i

\* The global indices of chunk k.
ChunkIndices(k) == {global_index(k, i) : i \in 0..(Len(Chunk(k)) - 1)}

NoChild == [kind |-> "none", success |-> FALSE, out |-> <<>>]
PendingTask == [pc |-> "pending", child |-> NoChild, profit |-> 0, constants |-> <<>>]

InFlight == Cardinality({i \in DOMAIN task : task[i].pc = "running"})

\* What a child may print before it exits.
Stdouts == {<<"x", "\n">>,
            <<"P", ":", " ", "5", "\n">>,
            <<"P", ":", " ", "-", "3", "\n">>}

\* The logs directory.  A path below it is a sequence of components; a
\* component is a name built from a text and up to two numbers, as format!
\* builds it: "{a}-{b}" for a bucket, "script_{a}.py", "log_{a}.txt", or a
\* fixed text.  An entry is a path and what is there.
Comp(n, a, b) == [n |-> n, a |-> a, b |-> b]
Name(text) == Comp(text, 0, 0)
DirEntry(path) == [path |-> path, kind |-> "dir"]
FileEntry(path) == [path |-> path, kind |-> "file"]

SCRIPTS_SUBDIR == Name("scripts")
OUTPUT_SUBDIR == Name("output")
LOGS_SUBDIR == Name("logs")

\* (Mutation of ShardStart: the bucket number is not scaled back to an index.)
ShardStart_unscaled(index) == index \div ShardSize

\* main.rs 136, 148 and lib.rs 51, 75: `(index / 100) * 100`.
ShardStart(index) == (index \div ShardSize) * ShardSize

\* format!("{}-{}", subdir, subdir + 99).
BucketName(subdir) == Comp("-", subdir, subdir + (ShardSize - 1))

\* main.rs get_script_path and get_log_path.
get_script_path(index) ==
    <<BucketName(ShardStart(index)), SCRIPTS_SUBDIR, Comp("script_.py", index, 0)>>

get_log_path(index) ==
    <<BucketName(ShardStart(index)), OUTPUT_SUBDIR, Comp("log_.txt", index, 0)>>

\* lib.rs get_script_path and get_log_path.
lib_get_script_path(i) ==
    <<BucketName(ShardStart(i)), SCRIPTS_SUBDIR, Comp("script_.py", i, 0)>>

lib_get_log_path(i) ==
    <<BucketName(ShardStart(i)), LOGS_SUBDIR, Comp("log_.txt", i, 0)>>

\* Path::parent.
parent(path) == SubSeq(path, 1, Len(path) - 1)

\* Path::is_file, and the directory File::create needs.
is_file(f, path) == FileEntry(path) \in f
is_dir(f, path) == path = <<>> \/ DirEntry(path) \in f

\* fs::create_dir_all: the directory and every missing ancestor.
create_dir_all(f, path) == f \cup {DirEntry(SubSeq(path, 1, k)) : k \in 1..Len(path)}

\* fs::write / File::create: the file is there afterwards (truncated if it
\* was); its directory has to exist.
write(f, path) == f \cup {FileEntry(path)}

\* (Mutation of num_dirs: the division is not rounded up.)
num_dirs_rounded_down(total_scripts) == total_scripts \div ShardSize

\* main.rs 160 and 174: `(total_scripts + 99) / 100`.
num_dirs(total_scripts) == (total_scripts + (ShardSize - 1)) \div ShardSize

\* ensure_directories, main.rs 159-171.
ensure_directories(total_scripts, f) ==
    f \cup UNION {create_dir_all({}, <<BucketName(i * ShardSize), sub>>) :
                     i \in 0..(num_dirs(total_scripts) - 1),
                     sub \in {SCRIPTS_SUBDIR, OUTPUT_SUBDIR}}

\* cleanup_directory, main.rs 173-202: in the scripts and output directory of
\* each bucket of the sweep, the entries read_dir yields (the directory's own
\* entries, not those below them) that are files are removed.
cleanup_directory(total_scripts, f) ==
    f \ {e \in f :
            /\ Len(e.path) = 3
            /\ is_file(f, e.path)
            /\ \E i \in 0..(num_dirs(total_scripts) - 1) :
                  /\ e.path[1] = BucketName(i * ShardSize)
                  /\ e.path[2] \in {SCRIPTS_SUBDIR, OUTPUT_SUBDIR}}

\* create_or_clean_logs_dir, lib.rs 17-33: remove_dir_all of the logs
\* directory with everything below it, then the buckets' logs and scripts
\* directories for (0..dir_limit).step_by(100).
create_or_clean_logs_dir(f, num_of_combinations) ==
    LET removed == {}
        dir_limit == ((num_of_combinations + (ShardSize - 1)) \div ShardSize) * ShardSize
    IN removed \cup UNION {create_dir_all({}, <<BucketName(i), sub>>) :
                              i \in {k \in 0..(dir_limit - 1) : k % ShardSize = 0},
                              sub \in {LOGS_SUBDIR, SCRIPTS_SUBDIR}}

\* The target file.  A line is modelled by the set of markers it contains:
\* "start" for `# start`, "end" for `# end`.
\* lines.iter().position(|l| l.contains(marker)): the 0-based index of the
\* first line containing the marker.
position(ls, marker) ==
    LET hits == {i \in DOMAIN ls : marker \in ls[i]}
    IN IF hits = {} THEN None
       ELSE Some((CHOOSE i \in hits : \A j \in hits : i <= j) - 1)

\* validate_target_file, main.rs 296-303: the file is read and its content
\* contains both markers, wherever they are.
validate_target_file(t) ==
    /\ t.readable
    /\ \E i \in DOMAIN t.lines : "start" \in t.lines[i]
    /\ \E i \in DOMAIN t.lines : "end" \in t.lines[i]

\* create_script_with_constants, main.rs 212-217: unwrap() of a marker that is
\* on no line panics, and so does `start >= end`.
create_script_panics(t) ==
    LET start == position(t.lines, "start")
        end == position(t.lines, "end")
    IN ~start.some \/ ~end.some \/ start.val >= end.val

\* main.rs 329-330: the target file is validated before anything else; an
\* error returns from main.
ValidateTarget ==
    /\ phase = "init"
    /\ phase' = IF validate_target_file(template) THEN "start" ELSE "aborted"
    /\ UNCHANGED <<inputVars, ran, ret, arg, fs, csv_file, param_names, param_values, constants_list, state_file,
                   best_profit, best_constants, chunk_index, task, results, agg, state,
                   run_no, first_run, libVars>>

\* No previous run.
NoRun == [best |-> DefaultState, children |-> [a \in {} |-> NoChild]]

\* The evaluated program is deterministic: run again on the assignments of a
\* task of the previous run, the child does what it did then.
ProgramAllows(g, child) ==
    IF run_no = 1 THEN TRUE
    ELSE IF Range(task[g].constants) \notin DOMAIN first_run.children THEN TRUE
    ELSE first_run.children[Range(task[g].constants)] = child

\* main.rs 343-389: the combinations are generated in the HashMap's iteration
\* order, any permutation of the parameters.  An empty range or an empty
\* parameter map panics; a loop that never ends never leaves this step (its
\* values are then the ones pushed so far).
Enumerate ==
    /\ phase = "start"
    /\ \E order \in Perms(Len(parameters)) :
          LET e == MainEnumerate(parameters, order)
          IN /\ param_names' = e.names
             /\ param_values' = e.values
             /\ constants_list' = IF e.diverged THEN <<>> ELSE e.list
             /\ phase' = IF e.diverged THEN "diverged"
                         ELSE IF e.panicked THEN "panicked" ELSE "enumerated"
    /\ UNCHANGED <<inputVars, ran, ret, arg, fs, csv_file, first_run, run_no, state_file, best_profit, best_constants,
                   chunk_index, task, results, agg, state, libVars>>

\* main.rs 392: every bucket's scripts and output directory is created.
EnsureDirectories ==
    /\ phase = "enumerated"
    /\ fs' = ensure_directories(N, fs)
    /\ phase' = "ensured"
    /\ UNCHANGED <<inputVars, ran, ret, arg, param_names, param_values, constants_list, state_file,
                   best_profit, best_constants, chunk_index, task, results, agg, state,
                   run_no, first_run, csv_file, libVars>>

\* main.rs 395: the files of an earlier sweep are removed from those buckets.
CleanupDirectory ==
    /\ phase = "ensured"
    /\ fs' = cleanup_directory(N, fs)
    /\ phase' = "cleaned"
    /\ UNCHANGED <<inputVars, ran, ret, arg, param_names, param_values, constants_list, state_file,
                   best_profit, best_constants, chunk_index, task, results, agg, state,
                   run_no, first_run, csv_file, libVars>>

\* main.rs 397-415: load_state, then the first chunk (or none: an empty list
\* has no chunk and main goes to its summary).
LoadState ==
    /\ phase = "cleaned"
    /\ LET l == load_state(state_file)
       IN /\ state' = l.state
          /\ state_file' = l.file
    /\ best_profit' = NEG_INFINITY
    /\ best_constants' = <<>>
    /\ chunk_index' = 0
    /\ task' = [i \in 0..(N - 1) |-> PendingTask]
    /\ ran' = [p \in 1..N |-> <<>>]
    /\ phase' = IF NumChunks = 0 THEN "done" ELSE "dispatch"
    /\ UNCHANGED <<inputVars, ret, arg, fs, csv_file, first_run, run_no, param_values, param_names, constants_list, results, agg, libVars>>

\* main.rs 419-421 and 235-253: a free worker of the pool takes item i of the
\* chunk, writes its script and log header and spawns the child.  A target
\* file whose markers delimit no block panics before that ("Invalid start/end
\* block"); a failed spawn panics (`.expect("Failed to start command")`).
StartTask(i) ==
    /\ phase = "dispatch"
    /\ i \in 0..(Len(Chunk(chunk_index)) - 1)
    /\ task[global_index(chunk_index, i)].pc = "pending"
    /\ InFlight < PoolSize(threads)
    /\ \E spawned \in BOOLEAN :
          task' = [task EXCEPT ![global_index(chunk_index, i)] =
                      [pc |-> IF spawned /\ ~create_script_panics(template)
                              THEN "running" ELSE "panicked",
                       child |-> IF create_script_panics(template)
                                 THEN [kind |-> "invalid_block", success |-> FALSE, out |-> <<>>]
                                 ELSE IF spawned THEN NoChild
                                 ELSE [kind |-> "spawn_failed", success |-> FALSE, out |-> <<>>],
                       profit |-> 0,
                       constants |-> Chunk(chunk_index)[i + 1]]]
    /\ fs' = IF create_script_panics(template) THEN fs
             ELSE LET script_path == get_script_path(global_index(chunk_index, i))
                      log_path == get_log_path(global_index(chunk_index, i))
                      scripted == write(create_dir_all(fs, parent(script_path)), script_path)
                  IN write(create_dir_all(scripted, parent(log_path)), log_path)
    /\ ran' = [ran EXCEPT ![ChunkPosition(chunk_index, i)] =
                  Append(@, global_index(chunk_index, i))]
    /\ UNCHANGED <<inputVars, ret, arg, csv_file, first_run, run_no, param_values, phase, param_names, constants_list, state_file,
                   best_profit, best_constants, chunk_index, results, agg, state, libVars>>

\* main.rs 257-258 and 273-293, 421: the child exits within the timeout.
ChildExit(g) ==
    /\ phase = "dispatch"
    /\ g \in DOMAIN task
    /\ task[g].pc = "running"
    /\ \E success \in BOOLEAN, out \in Stdouts :
          /\ ProgramAllows(g, [kind |-> "exited", success |-> success, out |-> out])
          /\ task' = [task EXCEPT ![g] =
                      [@ EXCEPT !.pc = "done",
                                !.child = [kind |-> "exited", success |-> success, out |-> out],
                                !.profit = unwrap_or(run_and_get_profit_exited(success, out), 0)]]
    /\ UNCHANGED <<inputVars, ran, ret, arg, fs, csv_file, first_run, run_no, param_values, phase, param_names, constants_list, state_file,
                   best_profit, best_constants, chunk_index, results, agg, state, libVars>>

\* main.rs 256-270, 421: the child has not exited after 30 s and is killed.
Timeout(g) ==
    /\ phase = "dispatch"
    /\ g \in DOMAIN task
    /\ task[g].pc = "running"
    /\ ProgramAllows(g, [kind |-> "timed_out", success |-> FALSE, out |-> <<>>])
    /\ task' = [task EXCEPT ![g] =
                   [@ EXCEPT !.pc = "done",
                             !.child = [kind |-> "timed_out", success |-> FALSE, out |-> <<>>],
                             !.profit = unwrap_or(run_and_get_profit_timed_out, 0)]]
    /\ UNCHANGED <<inputVars, ran, ret, arg, fs, csv_file, first_run, run_no, param_values, phase, param_names, constants_list, state_file,
                   best_profit, best_constants, chunk_index, results, agg, state, libVars>>

\* main.rs 416-425: collect() returns once every item of the chunk is done; the
\* results are in the chunk's order.
Collect ==
    /\ phase = "dispatch"
    /\ \A g \in ChunkIndices(chunk_index) : task[g].pc = "done"
    /\ results' = [i \in 1..Len(Chunk(chunk_index)) |->
                      [profit |-> task[global_index(chunk_index, i - 1)].profit,
                       constants |-> Chunk(chunk_index)[i]]]
    /\ agg' = [i |-> 1, pc |-> "compare"]
    /\ phase' = "aggregate"
    /\ UNCHANGED <<inputVars, ran, ret, arg, fs, csv_file, first_run, run_no, param_values, param_names, constants_list, state_file,
                   best_profit, best_constants, chunk_index, task, state, libVars>>

\* A panic of a worker closure is carried to the thread that called collect()
\* once no item is running any more, and unwinds main: no aggregation of the
\* chunk, no later chunk, no summary.  Items of the chunk not yet started may or
\* may not have been run by then (StartTask stays enabled).
PanicPropagates ==
    /\ phase = "dispatch"
    /\ \E g \in ChunkIndices(chunk_index) : task[g].pc = "panicked"
    /\ InFlight = 0
    /\ phase' = "panicked"
    /\ UNCHANGED <<inputVars, ran, ret, arg, fs, csv_file, first_run, run_no, param_values, param_names, constants_list, state_file,
                   best_profit, best_constants, chunk_index, task, results, agg, state, libVars>>

\* main.rs 427-431: compare the next result with the in-memory best.
AggCompare ==
    /\ phase = "aggregate"
    /\ agg.pc = "compare"
    /\ agg.i <= Len(results)
    /\ IF results[agg.i].profit > best_profit
       THEN /\ best_profit' = results[agg.i].profit
            /\ best_constants' = results[agg.i].constants
            /\ agg' = [agg EXCEPT !.pc = "save"]
       ELSE /\ agg' = [agg EXCEPT !.i = @ + 1]
            /\ UNCHANGED <<best_profit, best_constants>>
    /\ UNCHANGED <<inputVars, ran, ret, arg, fs, csv_file, first_run, run_no, param_values, phase, param_names, constants_list, state_file,
                   chunk_index, task, results, state, libVars>>

\* main.rs 433-437: write the new best to the state file.
AggSave ==
    /\ phase = "aggregate"
    /\ agg.pc = "save"
    /\ state_file' = save_state([max_profit |-> results[agg.i].profit,
                                 constants |-> results[agg.i].constants])
    /\ agg' = [i |-> agg.i + 1, pc |-> "compare"]
    /\ UNCHANGED <<inputVars, ran, ret, arg, fs, csv_file, first_run, run_no, param_values, phase, param_names, constants_list, best_profit,
                   best_constants, chunk_index, task, results, state, libVars>>

\* main.rs 415 and 442-446: the next chunk, or the summary after the last.
NextChunk ==
    /\ phase = "aggregate"
    /\ agg.pc = "compare"
    /\ agg.i > Len(results)
    /\ IF chunk_index + 1 < NumChunks
       THEN /\ chunk_index' = chunk_index + 1
            /\ phase' = "dispatch"
       ELSE /\ phase' = "done"
            /\ UNCHANGED chunk_index
    /\ UNCHANGED <<inputVars, ran, ret, arg, fs, csv_file, first_run, run_no, param_values, param_names, constants_list, state_file,
                   best_profit, best_constants, task, results, agg, state, libVars>>

\* The binary is started again on the same configuration once a run has ended
\* with its summary: main() begins afresh, only the state file remains.
Restart ==
    /\ phase = "done"
    /\ run_no = 1
    /\ run_no' = 2
    /\ first_run' =
          [best |-> state_file.content,
           children |-> [a \in {Range(constants_list[k]) : k \in DOMAIN constants_list} |->
                            LET g == CHOOSE g \in DOMAIN task : Range(task[g].constants) = a
                            IN task[g].child]]
    /\ phase' = "init"
    /\ param_names' = <<>>
    /\ param_values' = <<>>
    /\ constants_list' = <<>>
    /\ best_profit' = NEG_INFINITY
    /\ best_constants' = <<>>
    /\ chunk_index' = 0
    /\ task' = <<>>
    /\ results' = <<>>
    /\ agg' = [i |-> 1, pc |-> "compare"]
    /\ state' = DefaultState
    /\ ran' = <<>>
    /\ UNCHANGED <<inputVars, ret, arg, fs, csv_file, state_file, libVars>>

MainNext ==
    \/ ValidateTarget
    \/ Enumerate
    \/ EnsureDirectories
    \/ CleanupDirectory
    \/ LoadState
    \/ \E i \in 0..(chunk_size - 1) : StartTask(i)
    \/ \E g \in DOMAIN task : ChildExit(g)
    \/ \E g \in DOMAIN task : Timeout(g)
    \/ Collect
    \/ PanicPropagates
    \/ AggCompare
    \/ AggSave
    \/ NextChunk

----------------------------------------------------------------------------
\* args.rs, lib.rs, run.rs: the library's sweep.

\* get_opts, args.rs 15-27: threads is a u8 whose default u8::MAX stands for
\* "not given" and is replaced by rayon::current_num_threads() as u8.
get_opts_threads(t) ==
    LET given == IF t.some THEN t.n ELSE u8_MAX
    IN IF given = u8_MAX THEN NumCpus % (u8_MAX + 1) ELSE given

\* run_all, run.rs 15-21: a private pool of opts.threads threads (0: rayon
\* chooses the CPU count).
LibPoolSize(t) == IF get_opts_threads(t) = 0 THEN NumCpus ELSE get_opts_threads(t)

LibPendingTask == [pc |-> "pending", out |-> <<>>, profit |-> None]

LibInFlight == Cardinality({i \in DOMAIN lib_task : lib_task[i].pc \in {"running", "hung"}})

\* get_constant_strings, lib.rs 100-104.
LibEnumerate ==
    /\ lib_phase = "start"
    /\ constant_strings' = IF LibDiverges(parameters) THEN <<>>
                           ELSE get_constant_strings(parameters)
    /\ lib_phase' = IF LibDiverges(parameters) THEN "diverged" ELSE "enumerated"
    /\ lib_task' = <<>>
    /\ UNCHANGED <<inputVars, ran, ret, arg, fs, mainVars>>

\* create_or_clean_logs_dir, lib.rs 17-33, given the number of combinations.
CreateOrCleanLogsDir ==
    /\ lib_phase = "enumerated"
    /\ fs' = create_or_clean_logs_dir(fs, Len(constant_strings))
    /\ lib_phase' = "prepared"
    /\ UNCHANGED <<inputVars, ran, ret, arg, mainVars, constant_strings, lib_task>>

\* run_all, run.rs 15-30: the pool is built and par_iter starts over all the
\* combinations at once (no chunks).
LibRunAll ==
    /\ lib_phase = "prepared"
    /\ lib_task' = [i \in 0..(Len(constant_strings) - 1) |-> LibPendingTask]
    /\ ran' = [p \in 1..Len(constant_strings) |-> <<>>]
    /\ lib_phase' = "running"
    /\ UNCHANGED <<inputVars, ret, arg, fs, mainVars, constant_strings>>

\* run.rs 30-43 and 69-76: a free worker takes item i, writes its script and
\* calls Command::output(); create_file panics when the script's directory
\* is not there, and a failed spawn panics (`.expect(...)`).
LibStart(i) ==
    /\ lib_phase = "running"
    /\ i \in DOMAIN lib_task
    /\ lib_task[i].pc = "pending"
    /\ LibInFlight < LibPoolSize(threads)
    /\ LET new_script_path == lib_get_script_path(i)
           created == is_dir(fs, parent(new_script_path))
       IN /\ \E spawned \in BOOLEAN :
                lib_task' = [lib_task EXCEPT ![i].pc =
                                IF created /\ spawned THEN "running" ELSE "panicked"]
          /\ fs' = IF created THEN write(fs, new_script_path) ELSE fs
    /\ ran' = [ran EXCEPT ![i + 1] = Append(@, i)]
    /\ UNCHANGED <<inputVars, ret, arg, mainVars, lib_phase, constant_strings>>

\* run.rs 75-79 and 45-62: output() returns when the child exits, whatever its
\* status; get_profit is applied to the captured stdout and the log is written.
LibChildExit(i) ==
    /\ lib_phase = "running"
    /\ i \in DOMAIN lib_task
    /\ lib_task[i].pc = "running"
    /\ LET log_path == lib_get_log_path(i)
           created == is_dir(fs, parent(log_path))
       IN /\ \E out \in Stdouts :
                lib_task' = [lib_task EXCEPT ![i] =
                                [pc |-> IF created THEN "done" ELSE "panicked",
                                 out |-> out, profit |-> get_profit(out)]]
          /\ fs' = IF created THEN write(fs, log_path) ELSE fs
    /\ UNCHANGED <<inputVars, ran, ret, arg, mainVars, lib_phase, constant_strings>>

\* run.rs 70-76: output() waits without a timeout; a child that never exits
\* keeps its worker inside run_script for ever.
LibChildHangs(i) ==
    /\ lib_phase = "running"
    /\ i \in DOMAIN lib_task
    /\ lib_task[i].pc = "running"
    /\ lib_task' = [lib_task EXCEPT ![i].pc = "hung"]
    /\ UNCHANGED <<inputVars, ran, ret, arg, fs, mainVars, lib_phase, constant_strings>>

\* run.rs 64-66: for_each returns once every item is done, and run_all Ok(()).
LibFinish ==
    /\ lib_phase = "running"
    /\ \A i \in DOMAIN lib_task : lib_task[i].pc = "done"
    /\ lib_phase' = "done"
    /\ UNCHANGED <<inputVars, ran, ret, arg, fs, mainVars, constant_strings, lib_task>>

\* A panic of a closure unwinds out of pool.install once no item is running.
LibPanicPropagates ==
    /\ lib_phase = "running"
    /\ \E i \in DOMAIN lib_task : lib_task[i].pc = "panicked"
    /\ LibInFlight = 0
    /\ lib_phase' = "panicked"
    /\ UNCHANGED <<inputVars, ran, ret, arg, fs, mainVars, constant_strings, lib_task>>

LibNext ==
    \/ LibEnumerate
    \/ CreateOrCleanLogsDir
    \/ LibRunAll
    \/ \E i \in DOMAIN lib_task : LibStart(i)
    \/ \E i \in DOMAIN lib_task : LibChildExit(i)
    \/ \E i \in DOMAIN lib_task : LibChildHangs(i)
    \/ LibFinish
    \/ LibPanicPropagates

----------------------------------------------------------------------------
\* The inputs and the specifications.

Param(name, start, end, step) == [name |-> name, start |-> start, end |-> end, step |-> step]

\* The -j option: absent, or a number.
ThreadOptions ==
    {[some |-> FALSE, n |-> 0]} \cup {[some |-> TRUE, n |-> n] : n \in 0..MaxThreads}

\* The configurations the sweeps are run on (values in halves): one and two
\* parameters, a grid longer than a chunk, and a range with no value.
SweepConfigs ==
    {<<Param("A", 0, 2, 1)>>,
     <<Param("A", 0, 0, 1), Param("B", 0, 3, 3)>>,
     <<Param("A", 1, 0, 1)>>}

\* The state file a run may find: none, an unreadable one, a prior run's best.
OldConstants == <<[name |-> "A", value |-> 9]>>
PriorStateFiles ==
    {NoFile,
     [exists |-> TRUE, valid |-> FALSE, content |-> DefaultState],
     FileOf([max_profit |-> 500, constants |-> OldConstants]),
     FileOf([max_profit |-> -300, constants |-> OldConstants])}

\* The target files: a block between the markers; an unreadable file; no end
\* marker; the end marker before the start marker; both markers on one line.
ValidTemplate == [readable |-> TRUE, lines |-> <<{}, {"start"}, {}, {"end"}>>]
Templates ==
    {ValidTemplate,
     [readable |-> FALSE, lines |-> <<>>],
     [readable |-> TRUE, lines |-> <<{"start"}, {}>>],
     [readable |-> TRUE, lines |-> <<{"end"}, {"start"}>>],
     [readable |-> TRUE, lines |-> <<{"start", "end"}>>]}

\* What an earlier sweep of 150 tasks and its user left under the logs
\* directory: scripts and logs in two buckets, a directory with a file inside
\* a scripts directory, a file in a bucket and a file beside the buckets.
OldTree ==
    LET b0 == BucketName(0)
        b1 == BucketName(ShardSize)
    IN UNION {create_dir_all({}, <<b, sub>>) :
                 b \in {b0, b1}, sub \in {SCRIPTS_SUBDIR, OUTPUT_SUBDIR, LOGS_SUBDIR}}
         \cup {FileEntry(get_script_path(5)), FileEntry(get_log_path(5)),
               FileEntry(lib_get_log_path(5)),
               FileEntry(get_script_path(ShardSize + 20)),
               FileEntry(get_log_path(ShardSize + 20)),
               FileEntry(lib_get_log_path(ShardSize + 20)),
               DirEntry(<<b0, SCRIPTS_SUBDIR, Name("__pycache__")>>),
               FileEntry(<<b0, SCRIPTS_SUBDIR, Name("__pycache__"), Name("trader.pyc")>>),
               FileEntry(<<b0, Name("notes.txt")>>),
               FileEntry(<<Name("summary.txt")>>)}

\* The logs directory a run may find: empty, or left by an earlier sweep.
OldTrees == {{}, OldTree}

\* No function is being applied on its own.
NoCall == [fn |-> "none"]

MainAtRest ==
    /\ param_names = <<>>
    /\ param_values = <<>>
    /\ constants_list = <<>>
    /\ best_profit = NEG_INFINITY
    /\ best_constants = <<>>
    /\ chunk_index = 0
    /\ task = <<>>
    /\ results = <<>>
    /\ agg = [i |-> 1, pc |-> "compare"]
    /\ state = DefaultState

LibAtRest ==
    /\ constant_strings = <<>>
    /\ lib_task = <<>>

\* A run of the binary or a run of the library engine.
Init ==
    /\ parameters \in SweepConfigs
    /\ threads \in ThreadOptions
    /\ MainAtRest
    /\ LibAtRest
    /\ run_no = 1
    /\ first_run = NoRun
    /\ csv_file = <<>>
    /\ ran = <<>>
    /\ arg = NoCall
    /\ ret = NoCall
    /\ fs = OldTree
    /\ test \in BOOLEAN
    /\ \/ /\ phase = "init"
          /\ lib_phase = "off"
          /\ template \in Templates
          /\ state_file \in PriorStateFiles
       \/ /\ phase = "off"
          /\ lib_phase = "start"
          /\ template = ValidTemplate
          /\ state_file = NoFile

Next == MainNext \/ LibNext

Spec == Init /\ [][Next]_vars

\* The schedulers (the OS for the children, rayon for the closures, the main
\* thread's own sequential loop) leave no enabled step undone for ever.
FairSpec == Spec /\ WF_vars(Next)

\* The ranges EnumSpec enumerates: one or two parameters, steps of either sign.
EnumRanges ==
    {Param("A", s, e, st) : s \in 0..1, e \in 0..MaxEnd, st \in {-1, 1, 2}}

EnumConfigs ==
    {<<r>> : r \in EnumRanges}
      \cup {<<r, Param("B", 0, e, st)>> : r \in EnumRanges, e \in 1..MaxEnd, st \in {1, 2}}

EnumInit ==
    /\ parameters \in EnumConfigs
    /\ threads = [some |-> FALSE, n |-> 0]
    /\ MainAtRest
    /\ LibAtRest
    /\ run_no = 1
    /\ first_run = NoRun
    /\ csv_file = <<>>
    /\ ran = <<>>
    /\ arg = NoCall
    /\ ret = NoCall
    /\ fs = {}
    /\ test = FALSE
    /\ phase = "start"
    /\ lib_phase = "start"
    /\ template = ValidTemplate
    /\ state_file = NoFile

EnumNext == Enumerate \/ LibEnumerate

\* Both enumerators applied to the same configuration.
EnumSpec == EnumInit /\ [][EnumNext]_vars

\* The sweep of n tasks over one parameter A = 0, 1, ..., n - 1, as each
\* engine holds it once enumerated.
GridOf(n) == [k \in 1..n |-> <<[name |-> "A", value |-> k - 1]>>]

\* Either engine with n tasks enumerated (main.rs 388: at least one), about
\* to prepare the logs directory, which is empty or was left by an earlier sweep.
DirInit ==
    /\ threads = [some |-> FALSE, n |-> 0]
    /\ test = FALSE
    /\ template = ValidTemplate
    /\ state_file = NoFile
    /\ run_no = 1
    /\ first_run = NoRun
    /\ csv_file = <<>>
    /\ ran = <<>>
    /\ arg = NoCall
    /\ ret = NoCall
    /\ fs \in OldTrees
    /\ best_profit = NEG_INFINITY
    /\ best_constants = <<>>
    /\ chunk_index = 0
    /\ task = <<>>
    /\ results = <<>>
    /\ agg = [i |-> 1, pc |-> "compare"]
    /\ state = DefaultState
    /\ lib_task = <<>>
    /\ \/ \E n \in 1..MaxTotal :
             /\ parameters = <<Param("A", 0, n - 1, 1)>>
             /\ phase = "enumerated"
             /\ param_names = <<"A">>
             /\ param_values = <<[k \in 1..n |-> k - 1]>>
             /\ constants_list = GridOf(n)
             /\ lib_phase = "off"
             /\ constant_strings = <<>>
       \/ \E n \in 0..MaxTotal :
             /\ parameters = <<Param("A", 0, n, 1)>>
             /\ phase = "off"
             /\ param_names = <<>>
             /\ param_values = <<>>
             /\ constants_list = <<>>
             /\ lib_phase = "enumerated"
             /\ constant_strings = GridOf(n)

DirNext == EnsureDirectories \/ CleanupDirectory \/ CreateOrCleanLogsDir

\* The preparation of the logs directory, for sweeps of up to MaxTotal tasks.
DirSpec == DirInit /\ [][DirNext]_vars

\* Neither engine is running: a function of the program is applied on its own.
EnginesOff ==
    /\ parameters = <<>>
    /\ threads = [some |-> FALSE, n |-> 0]
    /\ test = FALSE
    /\ template = ValidTemplate
    /\ MainAtRest
    /\ LibAtRest
    /\ run_no = 1
    /\ first_run = NoRun
    /\ csv_file = <<>>
    /\ ran = <<>>
    /\ fs = {}
    /\ state_file = NoFile
    /\ phase = "off"
    /\ lib_phase = "off"

\* The path functions of both engines applied to two indices.
ApplyShardPaths ==
    /\ arg.fn = "shard_paths"
    /\ ret = NoCall
    /\ ret' = [fn |-> "shard_paths",
               script_i |-> get_script_path(arg.i),
               log_i |-> get_log_path(arg.i),
               lib_script_i |-> lib_get_script_path(arg.i),
               lib_log_i |-> lib_get_log_path(arg.i),
               script_j |-> get_script_path(arg.j),
               log_j |-> get_log_path(arg.j),
               lib_script_j |-> lib_get_script_path(arg.j),
               lib_log_j |-> lib_get_log_path(arg.j)]
    /\ UNCHANGED <<inputVars, ran, mainVars, libVars, fs, arg>>

PathInit ==
    /\ EnginesOff
    /\ arg \in {[fn |-> "shard_paths", i |-> i, j |-> j] : i, j \in 0..MaxIndex}
    /\ ret = NoCall

PathNext == ApplyShardPaths

\* get_script_path and get_log_path on every pair of indices up to MaxIndex.
PathSpec == PathInit /\ [][PathNext]_vars

\* The lines a child may print, each with the value the line states (None: the
\* line has no label, or its number does not parse): "x", "Total profit:
\* 1,234.50", "Total profit: 5", "Total profit: 0", "Total profit: ,".
OutputLines ==
    {[text |-> <<"x">>, value |-> None],
     [text |-> <<"P", ":", " ", "1", ",", "2", "3", "4", ".", "5", "0">>, value |-> Some(123450)],
     [text |-> <<"P", ":", " ", "5">>, value |-> Some(500)],
     [text |-> <<"P", ":", " ", "0">>, value |-> Some(0)],
     [text |-> <<"P", ":", " ", ",">>, value |-> None]}

\* The sequences of at most n of those lines.
RECURSIVE LinesUpTo(_)
LinesUpTo(n) ==
    IF n = 0 THEN {<<>>}
    ELSE LET shorter == LinesUpTo(n - 1)
         IN shorter \cup {Append(ls, l) : ls \in shorter, l \in OutputLines}

\* The text of the lines, each ended by a line feed.
RECURSIVE Printed(_)
Printed(ls) == IF ls = <<>> THEN <<>> ELSE Head(ls).text \o <<"\n">> \o Printed(Tail(ls))

\* parse_profit and get_profit applied to one output.
ApplyExtract ==
    /\ arg.fn = "extract"
    /\ ret = NoCall
    /\ ret' = [fn |-> "extract",
               parse_profit |-> parse_profit(arg.stdout),
               get_profit |-> get_profit(arg.stdout)]
    /\ UNCHANGED <<inputVars, ran, mainVars, libVars, fs, arg>>

ExtractInit ==
    /\ EnginesOff
    /\ arg \in {[fn |-> "extract", lines |-> ls, stdout |-> Printed(ls)] : ls \in LinesUpTo(MaxLines)}
    /\ ret = NoCall

ExtractNext == ApplyExtract

\* The two metric extractors on every output of up to MaxLines lines.
ExtractSpec == ExtractInit /\ [][ExtractNext]_vars

\* The configurations run twice: one and two parameters.
TwoRunConfigs ==
    {<<Param("A", 0, 1, 1)>>,
     <<Param("A", 0, 0, 1), Param("B", 0, 3, 3)>>}

TwoRunInit ==
    /\ parameters \in TwoRunConfigs
    /\ threads \in ThreadOptions
    /\ MainAtRest
    /\ LibAtRest
    /\ run_no = 1
    /\ first_run = NoRun
    /\ csv_file = <<>>
    /\ ran = <<>>
    /\ arg = NoCall
    /\ ret = NoCall
    /\ fs = {}
    /\ test = FALSE
    /\ phase = "init"
    /\ lib_phase = "off"
    /\ template = ValidTemplate
    /\ state_file = NoFile

TwoRunNext == MainNext \/ Restart

\* The binary run twice in a row on one configuration and one program.
TwoRunSpec == TwoRunInit /\ [][TwoRunNext]_vars

----------------------------------------------------------------------------
\* The properties.

\* The metric of a finished task as the specification defines it: the value of
\* the labelled line of what the child printed, when the child exited
\* successfully within the timeout; absent otherwise.
TaskMetric(t) ==
    IF t.child.kind = "exited" /\ t.child.success THEN parse_profit(t.child.out) ELSE None

\* The best state, in memory and on disk, is the result of task g.
BestIs(g, metric) ==
    /\ best_profit = metric
    /\ best_constants = task[g].constants
    /\ state_file = FileOf([max_profit |-> metric, constants |-> task[g].constants])

\* C1: once every task of a sweep has been recorded, if exactly one task has
\* the strictly highest metric then the best state is that task's metric and
\* combination, whatever the completion order and the worker count.
C1_UniqueHighestIsBest ==
    phase = "done" =>
        \A g \in DOMAIN task :
            (/\ TaskMetric(task[g]).some
             /\ \A h \in DOMAIN task \ {g} :
                   TaskMetric(task[h]).some => TaskMetric(task[h]).val < TaskMetric(task[g]).val)
                => BestIs(g, TaskMetric(task[g]).val)

\* C2: a task whose metric is absent (timeout, non-zero exit, no parseable
\* labelled line) never is the best state: whenever a best has been recorded,
\* the task it names has a metric.
C2_AbsentNeverBest ==
    \A g \in DOMAIN task :
        (task[g].pc = "done" /\ best_constants # <<>> /\ best_constants = task[g].constants)
            => TaskMetric(task[g]).some

\* C3: a task whose child exits successfully within the timeout and prints a
\* parseable labelled line hands that line's value to the aggregator.
C3_MetricIsPrintedValue ==
    \A g \in DOMAIN task :
        (task[g].pc = "done" /\ TaskMetric(task[g]).some)
            => task[g].profit = TaskMetric(task[g]).val

\* A task that failed: its child could not be spawned, exited non-zero, or was
\* killed at the timeout.
TaskFailed(t) ==
    \/ t.child.kind \in {"spawn_failed", "timed_out"}
    \/ t.child.kind = "exited" /\ ~t.child.success

\* C4: a failed task never stops the dispatcher: a run in which a task failed
\* ends only at its summary, with every task attempted.
C4_FailureNeverStopsSweep ==
    ((\E g \in DOMAIN task : TaskFailed(task[g])) /\ phase \in {"done", "panicked"})
        => (phase = "done" /\ \A g \in DOMAIN task : task[g].pc # "pending")

\* A child that does not exit on its own: one the binary had to kill, one the
\* library is still waiting for.
SomeChildNeverExits ==
    \/ \E g \in DOMAIN task : task[g].child.kind = "timed_out"
    \/ \E i \in DOMAIN lib_task : lib_task[i].pc = "hung"

SweepCompleted ==
    \/ phase = "done" /\ \A g \in DOMAIN task : task[g].pc = "done"
    \/ lib_phase = "done" /\ \A i \in DOMAIN lib_task : lib_task[i].pc = "done"

\* C5: when a child never exits on its own, its task is ended at the timeout
\* and, under fair scheduling, the sweep terminates with all tasks completed.
C5_HungChildDoesNotBlockSweep == SomeChildNeverExits ~> SweepCompleted

\* C6: the maximum held by the durable best-state never decreases, within a run
\* or across a restart that finds a prior run's file.
C6_PersistedMaxNeverDecreases ==
    [][(state_file.exists /\ state_file.valid)
          => state_file'.content.max_profit >= state_file.content.max_profit]_vars

\* C7: once a run has made its first improvement, whenever no aggregation step
\* is between its update and its write, the durable best-state equals the
\* in-memory best (metric and combination).
C7_DurableEqualsMemory ==
    (best_profit > NEG_INFINITY /\ ~(phase = "aggregate" /\ agg.pc = "save"))
        => state_file = FileOf([max_profit |-> best_profit, constants |-> best_constants])

\* C7 witness: the aggregation loop is past an improvement it has persisted and
\* has more results of the chunk to look at.
C7_Witness ==
    /\ phase = "aggregate"
    /\ agg.pc = "compare"
    /\ agg.i = 2
    /\ agg.i <= Len(results)
    /\ best_profit = results[1].profit
    /\ state_file.content.constants = results[1].constants

\* The worker count as the claim reads it: the configured number, else the
\* CPU count.
ConfiguredWorkers(t) == IF t.some THEN t.n ELSE NumCpus

\* The worker count with a configured 0 read as "not configured".
EffectiveWorkers(t) == IF t.some /\ t.n >= 1 THEN t.n ELSE NumCpus

\* C8 as stated: at most workerCount tasks are in flight, workerCount being the
\* configured thread count, or the CPU parallelism when none is given.
C8_InFlightWithinConfigured ==
    /\ InFlight <= ConfiguredWorkers(threads)
    /\ LibInFlight <= ConfiguredWorkers(threads)

\* C8 amended: at most workerCount tasks are in flight, workerCount being the
\* configured thread count when it is at least 1, and the CPU parallelism when
\* none or 0 is given.
C8_InFlightWithinEffective ==
    /\ InFlight <= EffectiveWorkers(threads)
    /\ LibInFlight <= EffectiveWorkers(threads)

\* C8 witness: every worker of a one-thread pool is busy while an item of the
\* chunk still waits.
C8_Witness ==
    /\ threads = [some |-> TRUE, n |-> 1]
    /\ phase = "dispatch"
    /\ InFlight = 1
    /\ \E g \in ChunkIndices(chunk_index) : task[g].pc = "pending"

\* The grid the specification defines for value lists vals (vals[i] the values
\* of the i-th declared range): all tuples, the first range slowest.
ExpectedGrid(ps, vals) ==
    LET sizes == [i \in DOMAIN ps |-> Len(vals[i])]
        inner(i) == SeqProd(SubSeq(sizes, i + 1, Len(sizes)))
    IN [k \in 1..SeqProd(sizes) |->
           [i \in DOMAIN ps |->
               [name |-> ps[i].name,
                value |-> vals[i][(((k - 1) \div inner(i)) % sizes[i]) + 1]]]]

\* C9: the enumerated grid is the Cartesian product of the ranges' values, each
\* tuple once, the first declared range varying slowest and the last fastest.
C9_GridInDeclarationOrder ==
    /\ phase = "enumerated" =>
          constants_list =
              ExpectedGrid(parameters,
                           [i \in DOMAIN parameters |-> generate_values(parameters[i]).vals])
    /\ lib_phase = "enumerated" =>
          constant_strings =
              ExpectedGrid(parameters,
                           [i \in DOMAIN parameters |->
                               ForIn(generate_loops(parameters)[i], MaxIter).vals])

\* start, start+step, ... while strictly before end in the direction of step.
HalfOpenValues(p) ==
    LET before(v) == IF p.step > 0 THEN v < p.end ELSE v > p.end
        count == Cardinality({k \in 0..MaxIter :
                                 \A j \in 0..k : before(p.start + j * p.step)})
    IN [k \in 1..count |-> p.start + (k - 1) * p.step]

\* C10: a range enumerates exactly start, start+step, ... strictly before end
\* (half-open); shown on the one-parameter grids, whose combinations are the
\* range's values.
C10_RangeIsHalfOpen ==
    Len(parameters) = 1 =>
        /\ phase = "enumerated" =>
              [k \in DOMAIN constants_list |-> constants_list[k][1].value]
                  = HalfOpenValues(parameters[1])
        /\ lib_phase = "enumerated" =>
              [k \in DOMAIN constant_strings |-> constant_strings[k][1].value]
                  = HalfOpenValues(parameters[1])

\* The declared range whose values main.rs keeps under param_names[i].
RangeNamed(name) == CHOOSE p \in Range(parameters) : p.name = name

\* A range that cannot make progress: the sign of step disagrees with the
\* ordering of start and end.
Disagrees(p) ==
    \/ p.step > 0 /\ p.start >= p.end
    \/ p.step < 0 /\ p.start <= p.end

\* C11: the enumeration of a range whose step sign disagrees with the ordering
\* of start and end terminates and yields zero values: in main.rs the values
\* kept for it are none, in lib.rs the grid having such a range is computed
\* and has no combination.
C11_DisagreeingRangeYieldsNothing ==
    /\ \A i \in DOMAIN param_values :
          Disagrees(RangeNamed(param_names[i])) =>
              /\ param_values[i] = <<>>
              /\ phase # "diverged"
    /\ (\E i \in DOMAIN parameters : Disagrees(parameters[i])) =>
          /\ lib_phase # "diverged"
          /\ lib_phase = "enumerated" => constant_strings = <<>>

\* C12: a configuration having a range with no value is a sweep of size 0:
\* the enumeration ends without an error and with no combination.
C12_EmptyRangeIsSweepOfSizeZero ==
    /\ (phase \notin {"off", "init", "aborted", "start", "diverged"}
          /\ \E i \in DOMAIN param_values : param_values[i] = <<>>) =>
          /\ phase # "panicked"
          /\ constants_list = <<>>
    /\ (lib_phase \notin {"off", "start", "diverged"}
          /\ \E i \in DOMAIN parameters :
                ForIn(generate_loops(parameters)[i], MaxIter).vals = <<>>) =>
          /\ lib_phase # "panicked"
          /\ constant_strings = <<>>

\* C13: the same configuration run twice on a deterministic program leaves the
\* same BestState content (maximum and combination text) after the second run
\* as after the first, whatever the worker count, the completion order and the
\* parameter-iteration order of either run.
C13_SecondRunLeavesSameBestState ==
    (run_no = 2 /\ phase = "done") => state_file.content = first_run.best

\* The two marker lines delimit an injectable region: the file is readable,
\* both markers are there and the end marker comes after the start marker.
DelimitsRegion(t) ==
    /\ t.readable
    /\ \E i, j \in DOMAIN t.lines :
          /\ i < j
          /\ "start" \in t.lines[i]
          /\ "end" \in t.lines[j]
          /\ \A k \in 1..(j - 1) : "end" \notin t.lines[k]
          /\ \A k \in 1..(i - 1) : "start" \notin t.lines[k]

\* C14: a target file whose markers do not delimit a valid region aborts the
\* run before any task is dispatched: no worker takes a task, so the error is
\* never first raised inside a worker.
C14_InvalidTemplateAbortsBeforeDispatch ==
    (phase # "off" /\ ~DelimitsRegion(template)) =>
        \A g \in DOMAIN task : task[g].pc = "pending"

\* The step by which a worker takes task g is possible now.
CanStart(g) ==
    \E i \in 0..(chunk_size - 1) :
        /\ global_index(chunk_index, i) = g
        /\ ENABLED StartTask(i)

\* C15: with a worker idle and a task not yet dispatched, the next task in
\* line can start without any other task's subprocess finishing first; chunk
\* boundaries add no waiting.
C15_IdleWorkerTakesPendingTask ==
    /\ phase = "dispatch" =>
          \A g \in DOMAIN task :
              (task[g].pc = "pending"
                 /\ (\A h \in DOMAIN task : h < g => task[h].pc # "pending")
                 /\ InFlight < PoolSize(threads)
                 /\ \A h \in DOMAIN task : task[h].pc # "panicked") => CanStart(g)
    /\ lib_phase = "running" =>
          \A i \in DOMAIN lib_task :
              (lib_task[i].pc = "pending"
                 /\ (\A h \in DOMAIN lib_task : h < i => lib_task[h].pc # "pending")
                 /\ LibInFlight < LibPoolSize(threads)
                 /\ \A h \in DOMAIN lib_task : lib_task[h].pc # "panicked") =>
                  ENABLED LibStart(i)

\* The row the exhaustive record is to hold for a finished task: its
\* combination and its metric, 0 when the metric is absent.
RowOf(t) ==
    [constants |-> t.constants,
     metric |-> IF TaskMetric(t).some THEN TaskMetric(t).val ELSE 0]

\* C16: with exhaustive recording enabled, after the sweep the record holds
\* exactly one row per completed task, that task's combination and metric.
C16_OneRowPerCompletedTask ==
    (phase = "done" /\ test) =>
        /\ Len(csv_file) = Cardinality({g \in DOMAIN task : task[g].pc = "done"})
        /\ \A g \in DOMAIN task :
              task[g].pc = "done" =>
                  Cardinality({k \in DOMAIN csv_file : csv_file[k] = RowOf(task[g])}) = 1

\* C17: for every task count N and every index below N, the scripts and the
\* logs (or output) directory of the index's bucket exist once the directories
\* have been prepared, which is before the first task is dispatched.
C17_BucketsExistBeforeDispatch ==
    /\ phase \in {"ensured", "cleaned", "dispatch", "aggregate", "done"} =>
          \A i \in 0..(N - 1) :
              /\ is_dir(fs, parent(get_script_path(i)))
              /\ is_dir(fs, parent(get_log_path(i)))
    /\ lib_phase \in {"prepared", "running", "done"} =>
          \A i \in 0..(Len(constant_strings) - 1) :
              /\ is_dir(fs, parent(lib_get_script_path(i)))
              /\ is_dir(fs, parent(lib_get_log_path(i)))

\* A sweep of more than two buckets has been prepared, in either engine.
C17_Witness ==
    \/ /\ phase = "cleaned"
       /\ N > 2 * ShardSize
       /\ is_dir(fs, parent(get_log_path(N - 1)))
    \/ /\ lib_phase = "prepared"
       /\ Len(constant_strings) > 2 * ShardSize
       /\ is_dir(fs, parent(lib_get_log_path(Len(constant_strings) - 1)))

\* The regular files in the scripts and the logs or output directory of the
\* buckets of a sweep of `total` tasks.
SweepFiles(total, f) ==
    {e \in f :
        /\ e.kind = "file"
        /\ Len(e.path) = 3
        /\ e.path[1] \in {BucketName(ShardStart(i)) : i \in 0..(total - 1)}
        /\ e.path[2] \in {SCRIPTS_SUBDIR, OUTPUT_SUBDIR, LOGS_SUBDIR}}

\* C20: the cleaning before a sweep removes only regular files in the scripts
\* and logs/output directories of the sweep's buckets: every other entry under
\* the logs directory, the bucket directories included, is still there after it.
C20_CleaningRemovesOnlySweepFiles ==
    [][/\ (phase = "ensured" /\ phase' = "cleaned") =>
             \A e \in fs : e \notin fs' => e \in SweepFiles(N, fs)
       /\ (lib_phase = "enumerated" /\ lib_phase' = "prepared") =>
             \A e \in fs : e \notin fs' => e \in SweepFiles(Len(constant_strings), fs)]_vars

\* The bucket the specification names for index i.
BucketOf(i) == Comp("-", (i \div 100) * 100, (i \div 100) * 100 + 99)

\* C18: the script path and the log path of index i lie in the bucket
\* "<floor(i/100)*100>-<floor(i/100)*100+99>" (250: 200-299, 0: 0-99); the
\* buckets are contiguous and do not overlap, each holds at most 100 indices,
\* and distinct indices have distinct script paths and distinct log paths.
C18_ShardPathsInBuckets ==
    ret.fn = "shard_paths" =>
        LET i == arg.i
            j == arg.j
            bi == ret.script_i[1]
            bj == ret.script_j[1]
        IN /\ ret.script_i[1] = BucketOf(i) /\ ret.log_i[1] = BucketOf(i)
           /\ ret.lib_script_i[1] = BucketOf(i) /\ ret.lib_log_i[1] = BucketOf(i)
           /\ i = 250 => bi = Comp("-", 200, 299)
           /\ i = 0 => bi = Comp("-", 0, 99)
           /\ bi.a <= i /\ i <= bi.b /\ bi.b - bi.a + 1 <= 100
           /\ bi = bj \/ bi.b < bj.a \/ bj.b < bi.a
           /\ j = i + 1 => (bj = bi \/ bj.a = bi.b + 1)
           /\ i # j => /\ ret.script_i # ret.script_j
                       /\ ret.log_i # ret.log_j
                       /\ ret.lib_script_i # ret.lib_script_j
                       /\ ret.lib_log_i # ret.lib_log_j

\* The paths of two indices of one bucket, 250 and 299, have been computed.
C18_Witness ==
    /\ ret.fn = "shard_paths"
    /\ arg.i = 250
    /\ arg.j = 299
    /\ ret.script_i[1] = ret.script_j[1]
    /\ ret.log_i # ret.log_j

\* The value of the first line, in document order, that states one.
RECURSIVE FirstValue(_)
FirstValue(ls) ==
    IF ls = <<>> THEN None
    ELSE IF Head(ls).value.some THEN Head(ls).value
    ELSE FirstValue(Tail(ls))

\* C19: extract(stdout) is the value of the first labelled line whose number
\* parses once the grouping separators are stripped, its fraction kept
\* ("Total profit: 1,234.50" gives 1234.5), earlier labelled lines that do not
\* parse being skipped; it is absent, never 0, when no labelled line parses.
C19_ExtractFirstParseableValue ==
    ret.fn = "extract" =>
        /\ ret.parse_profit = FirstValue(arg.lines)
        /\ ret.get_profit = FirstValue(arg.lines)

\* C21: for every combination list, of a length that is a multiple of the
\* chunk size or not, the per-task work of position p runs at most once and
\* under index p only (positions from 1, indices from 0: index p - 1), with
\* its script and log at the shard paths of that index, so that no index is
\* repeated or shared by two combinations; and a sweep that reaches its end
\* has run every position, so that no index is skipped.
C21_EachPositionRunsOnceUnderItsIndex ==
    /\ phase # "off" =>
          /\ \A p \in DOMAIN ran :
                /\ ran[p] \in {<<>>, <<p - 1>>}
                /\ ran[p] # <<>> =>
                      /\ task[p - 1].constants = constants_list[p]
                      /\ ~create_script_panics(template) =>
                            /\ is_file(fs, get_script_path(p - 1))
                            /\ is_file(fs, get_log_path(p - 1))
          /\ phase = "done" => \A p \in 1..N : ran[p] = <<p - 1>>
    /\ lib_phase # "off" =>
          /\ \A p \in DOMAIN ran :
                /\ ran[p] \in {<<>>, <<p - 1>>}
                /\ lib_task[p - 1].pc \in {"running", "hung", "done"} =>
                      is_file(fs, lib_get_script_path(p - 1))
                /\ lib_task[p - 1].pc = "done" => is_file(fs, lib_get_log_path(p - 1))
          /\ lib_phase = "done" => \A p \in 1..Len(constant_strings) : ran[p] = <<p - 1>>

\* A sweep of more than one chunk whose last chunk is not full has ended, every
\* position run under its own index; or the library's sweep of several tasks has.
C21_Witness ==
    \/ /\ phase = "done"
       /\ N > chunk_size
       /\ N % chunk_size # 0
       /\ \A p \in 1..N : ran[p] = <<p - 1>> /\ is_file(fs, get_log_path(p - 1))
    \/ /\ lib_phase = "done"
       /\ Len(constant_strings) > 1
       /\ \A p \in 1..Len(constant_strings) : ran[p] = <<p - 1>>

\* Task g is the lowest-indexed of several tasks sharing the highest metric.
LowestOfTiedHighest(g) ==
    LET m(h) == TaskMetric(task[h])
    IN /\ m(g).some
       /\ \A h \in DOMAIN task : m(h).some => m(h).val <= m(g).val
       /\ \E h \in DOMAIN task : h # g /\ m(h).some /\ m(h).val = m(g).val
       /\ \A h \in DOMAIN task : (h < g /\ m(h).some) => m(h).val # m(g).val

\* C22: when several tasks share the highest metric, the best state after the
\* sweep is the combination of the one with the lowest index, whatever the
\* completion order: an equal metric met later never replaces it.
C22_TieGoesToLowestIndex ==
    phase = "done" =>
        \A g \in DOMAIN task :
            LowestOfTiedHighest(g) =>
                /\ best_constants = task[g].constants
                /\ state_file.content.constants = task[g].constants

====
